---- MODULE Spec2Model ----
(***************************************************************************)
(* Model of the LM3549 LED driver crate: the register map and bit-field    *)
(* codecs of src/src/registers.rs and the I2C driver of src/src/lib.rs.    *)
(*                                                                         *)
(* Two specifications share the module:                                    *)
(*   Spec       the driver: every public operation of LM3549<I2C> run      *)
(*              against a transport whose calls succeed or fail            *)
(*   CodecSpec  the register value objects: built from a raw byte, read    *)
(*              with the generated getters, changed with the setters       *)
(***************************************************************************)
EXTENDS Integers, Sequences, FiniteSets, TLC

VARIABLES
    address,    \* LM3549.address
    bus,        \* transactions the transport saw during the latest operation
    call,       \* the latest driver operation and its arguments
    ret,        \* the Result that operation returned
    addressed,  \* every device address a transaction was ever sent to
    kind,       \* codec: the type of the value object (a register, or a u8)
    raw,        \* codec: the object's byte (the .0 of the tuple struct)
    obs         \* codec: the latest codec operation and what it produced

vars == <<address, bus, call, ret, addressed, kind, raw, obs>>

driverVars == <<address, bus, call, ret, addressed>>

codecVars == <<kind, raw, obs>>

(***************************************************************************)
(* u8 arithmetic                                                           *)
(***************************************************************************)
U8 == 0 .. 255

\* a & b, bit by bit from the low end
RECURSIVE BitAnd(_, _)
BitAnd(a, b) ==
    IF a = 0 \/ b = 0 THEN 0
    ELSE (IF a % 2 = 1 /\ b % 2 = 1 THEN 1 ELSE 0)
         + 2 * BitAnd(a \div 2, b \div 2)

\* a | b, bit by bit from the low end
RECURSIVE BitOr(_, _)
BitOr(a, b) ==
    IF a = 0 THEN b
    ELSE IF b = 0 THEN a
    ELSE (IF a % 2 = 1 \/ b % 2 = 1 THEN 1 ELSE 0)
         + 2 * BitOr(a \div 2, b \div 2)

\* !a on u8
Not8(a) == 255 - a

\* a << n on u8 (bits shifted out are lost)
Shl8(a, n) == (a * 2 ^ n) % 256

\* a >> n
Shr(a, n) == a \div 2 ^ n

(***************************************************************************)
(* bitfield!: the accessors the macro generates over a u8                  *)
(***************************************************************************)
\* BitRange<u8>::bit_range(msb, lsb)
bit_range(self, msb, lsb) ==
    Shr(Shl8(self, 8 - msb - 1), 8 - msb - 1 + lsb)

\* BitRange<u8>::set_bit_range(msb, lsb, value)
set_bit_range(self, msb, lsb, value) ==
    LET mask == Shl8(Shr(Shl8(Not8(0), 8 - msb - 1), 8 - msb - 1 + lsb), lsb)
    IN  BitOr(BitAnd(self, Not8(mask)), BitAnd(Shl8(value, lsb), mask))

\* Bit::bit(n)
bit(self, n) == bit_range(self, n, n) # 0

\* Bit::set_bit(n, value)
set_bit(self, n, value) == set_bit_range(self, n, n, IF value THEN 1 ELSE 0)

(***************************************************************************)
(* Register map                                                            *)
(***************************************************************************)
\* enum Register: `register as u8` is Register[register]
Register ==
    [BankSel |-> 0, Ir0Lsb |-> 1, Ir0Msb |-> 2, Ig0Lsb |-> 3, Ig0Msb |-> 4,
     Ib0Lsb |-> 5, Ib0Msb |-> 6, Ir1Lsb |-> 7, Ir1Msb |-> 8, Ig1Lsb |-> 9,
     Ig1Msb |-> 10, Ib1Lsb |-> 11, Ib1Msb |-> 12, Ir2Lsb |-> 13, Ir2Msb |-> 14,
     Ig2Lsb |-> 15, Ig2Msb |-> 16, Ib2Lsb |-> 17, Ib2Msb |-> 18, Fader |-> 19,
     Ctrl |-> 20, Ilimit |-> 21, FaultMask |-> 22, Fault |-> 23, User1 |-> 25,
     User2 |-> 26, EepromCtrl |-> 64]

Registers == DOMAIN Register

\* enum Bank: `bank as u8` is Bank[bank]
Bank == [B0 |-> 1, B1 |-> 7, B2 |-> 13]

Banks == DOMAIN Bank

(***************************************************************************)
(* Enumerations and their conversions                                      *)
(***************************************************************************)
\* enum PosLimit, members in declaration (= discriminant) order
PosLimit == <<"MA500", "MA1000", "MA1500", "MA2000">>

\* enum NegLimit
NegLimit == <<"MA550", "MA1100", "MA1650", "MA2200">>

\* enum OpenShort
OpenShort == <<"None", "Red", "Green", "Blue">>

\* enum Timeout
Timeout == <<"MS125", "MS250", "MS500", "MS1000">>

\* enum SoftStart
SoftStart == <<"None", "MS500", "MS1000", "MS2000">>

Members(enum) == {enum[i] : i \in DOMAIN enum}

\* `member as u8`: the discriminant
AsU8(enum, member) == (CHOOSE i \in DOMAIN enum : enum[i] = member) - 1

\* impl From<PosLimit> for u8
U8FromPosLimit(p) == AsU8(PosLimit, p)

\* impl From<u8> for PosLimit
PosLimitFromU8(x) ==
    CASE x = 0 -> "MA500"
      [] x = 1 -> "MA1000"
      [] x = 2 -> "MA1500"
      [] OTHER -> "MA2000"

\* impl From<NegLimit> for u8
U8FromNegLimit(n) == AsU8(NegLimit, n)

\* impl From<u8> for NegLimit
NegLimitFromU8(x) ==
    CASE x = 0 -> "MA550"
      [] x = 1 -> "MA1100"
      [] x = 2 -> "MA1650"
      [] OTHER -> "MA2200"

\* impl From<u8> for OpenShort
OpenShortFromU8(x) ==
    CASE x = 1 -> "Red"
      [] x = 2 -> "Green"
      [] x = 3 -> "Blue"
      [] OTHER -> "None"

\* impl From<u8> for Timeout
TimeoutFromU8(x) ==
    CASE x = 0 -> "MS125"
      [] x = 1 -> "MS250"
      [] x = 2 -> "MS500"
      [] OTHER -> "MS1000"

\* impl From<Timeout> for u8
U8FromTimeout(t) == AsU8(Timeout, t)

\* From<u8> for SoftStart with the fallback arm on the first member
SoftStartFromU8_fallback_none(x) ==
    CASE x = 1 -> "MS500"
      [] x = 2 -> "MS1000"
      [] x = 3 -> "MS2000"
      [] OTHER -> "None"

\* impl From<u8> for SoftStart
SoftStartFromU8(x) ==
    CASE x = 0 -> "None"
      [] x = 1 -> "MS500"
      [] x = 2 -> "MS1000"
      [] OTHER -> "MS2000"

\* impl From<SoftStart> for u8
U8FromSoftStart(s) == AsU8(SoftStart, s)

(***************************************************************************)
(* Current limit register: bitfield! Ilimit(u8)                            *)
(***************************************************************************)
\* Ilimit::softstart(): the positive limit, bits 5..4
Ilimit_softstart(self) == PosLimitFromU8(bit_range(self, 5, 4))

\* Ilimit::set_softstart(value)
Ilimit_set_softstart(self, value) ==
    set_bit_range(self, 5, 4, U8FromPosLimit(value))

\* Ilimit::timeout(): the negative limit, bits 1..0
Ilimit_timeout(self) == NegLimitFromU8(bit_range(self, 1, 0))

\* set_timeout() on the bit range of the positive limit
Ilimit_set_timeout_bits_5_4(self, value) ==
    set_bit_range(self, 5, 4, U8FromNegLimit(value))

\* Ilimit::set_timeout(value)
Ilimit_set_timeout(self, value) ==
    set_bit_range(self, 1, 0, U8FromNegLimit(value))

\* impl Default for Ilimit
Ilimit_default == 17

\* The fields of a current limit register, read with its getters
IlimitDecode(self) ==
    [pos |-> Ilimit_softstart(self), neg |-> Ilimit_timeout(self)]

\* A current limit register built from its fields with the setters
IlimitEncode(self, f) ==
    Ilimit_set_timeout(Ilimit_set_softstart(self, f.pos), f.neg)

IlimitFields == [pos : Members(PosLimit), neg : Members(NegLimit)]

(***************************************************************************)
(* Control register: bitfield! Ctrl(u8)                                    *)
(***************************************************************************)
\* Ctrl::softstart(), bits 5..4
Ctrl_softstart(self) == SoftStartFromU8(bit_range(self, 5, 4))

\* Ctrl::set_softstart(value)
Ctrl_set_softstart(self, value) ==
    set_bit_range(self, 5, 4, U8FromSoftStart(value))

\* Ctrl::timeout(), bits 3..2
Ctrl_timeout(self) == TimeoutFromU8(bit_range(self, 3, 2))

\* set_timeout() on the bit range the current limit register uses
Ctrl_set_timeout_bits_1_0(self, value) ==
    set_bit_range(self, 1, 0, U8FromTimeout(value))

\* Ctrl::set_timeout(value)
Ctrl_set_timeout(self, value) ==
    set_bit_range(self, 3, 2, U8FromTimeout(value))

\* Ctrl::mfe(), bit 1
Ctrl_mfe(self) == bit(self, 1)

\* Ctrl::set_mfe(value)
Ctrl_set_mfe(self, value) == set_bit(self, 1, value)

\* Ctrl::pwm(), bit 0
Ctrl_pwm(self) == bit(self, 0)

\* Ctrl::set_pwm(value)
Ctrl_set_pwm(self, value) == set_bit(self, 0, value)

\* impl Default for Ctrl
Ctrl_default == 0

\* The fields of a control register, read with its getters
CtrlDecode(self) ==
    [softstart |-> Ctrl_softstart(self), timeout |-> Ctrl_timeout(self),
     mfe |-> Ctrl_mfe(self), pwm |-> Ctrl_pwm(self)]

\* A control register built from its fields: Ctrl::default() and the setters
CtrlEncode(f) ==
    Ctrl_set_pwm(
        Ctrl_set_mfe(
            Ctrl_set_timeout(
                Ctrl_set_softstart(Ctrl_default, f.softstart),
                f.timeout),
            f.mfe),
        f.pwm)

CtrlFields ==
    [softstart : Members(SoftStart), timeout : Members(Timeout),
     mfe : BOOLEAN, pwm : BOOLEAN]

(***************************************************************************)
(* Fault register: bitfield! Fault(u8), getters only                       *)
(***************************************************************************)
\* Fault::short(), bits 6..5
Fault_short(self) == OpenShortFromU8(bit_range(self, 6, 5))

\* Fault::open(), bits 4..3
Fault_open(self) == OpenShortFromU8(bit_range(self, 4, 3))

\* Fault::uvlo(), bit 2
Fault_uvlo(self) == bit(self, 2)

\* Fault::tsd(), bit 1
Fault_tsd(self) == bit(self, 1)

\* Fault::ocp(), bit 0
Fault_ocp(self) == bit(self, 0)

\* Fault::is_err()
Fault_is_err(self) == self = 0

\* Fault::is_ok()
Fault_is_ok(self) == ~Fault_is_err(self)

\* impl Default for FaultMask
FaultMask_default == 0

(***************************************************************************)
(* The transport: embedded-hal's blocking i2c::Write and i2c::Read.  Each  *)
(* call is one framed transaction; its outcome is "ok" or the error the    *)
(* transport reports.                                                      *)
(***************************************************************************)
Errors == {"Nack", "ArbitrationLoss"}

Outcomes == {"ok"} \cup Errors

\* Result::Ok(v); the unit value is <<>>, a byte x is <<x>>
Ok(v) == [ok |-> TRUE, val |-> v, err |-> "none"]

\* Result::Err(e)
Err(e) == [ok |-> FALSE, val |-> <<>>, err |-> e]

\* i2c.write(addr, bytes)
I2cWrite(addr, bytes, outcome) ==
    [kind |-> "write", addr |-> addr, bytes |-> bytes, len |-> Len(bytes),
     outcome |-> outcome, data |-> <<>>]

\* i2c.read(addr, &mut buf): on success the buffer holds the delivered bytes
I2cRead(addr, buf, outcome, delivered) ==
    [kind |-> "read", addr |-> addr, bytes |-> <<>>, len |-> Len(buf),
     outcome |-> outcome,
     data |-> IF outcome = "ok" THEN delivered ELSE buf]

(***************************************************************************)
(* The driver: impl LM3549<I2C>.  Each operation yields the transactions   *)
(* it issued, in order, and the Result it returns.                         *)
(***************************************************************************)
\* const LM3549_ADDR
LM3549_ADDR == 54

\* read() with the two transactions in the wrong order
read_before_write(self, register, o1, o2, delivered) ==
    LET buf == <<0>>
        r   == I2cRead(self, buf, o1, delivered)
        w   == I2cWrite(self, <<Register[register]>>, o2)
    IN  IF o1 # "ok" THEN [txs |-> <<r>>, ret |-> Err(o1)]
        ELSE IF o2 # "ok" THEN [txs |-> <<r, w>>, ret |-> Err(o2)]
        ELSE [txs |-> <<r, w>>, ret |-> Ok(<<r.data[1]>>)]

\* read() that drops the result of the address write instead of returning it
read_ignoring_write_error(self, register, o1, o2, delivered) ==
    LET buf == <<0>>
        w   == I2cWrite(self, <<Register[register]>>, o1)
        r   == I2cRead(self, buf, o2, delivered)
    IN  IF o2 # "ok" THEN [txs |-> <<w, r>>, ret |-> Err(o2)]
        ELSE [txs |-> <<w, r>>, ret |-> Ok(<<r.data[1]>>)]

\* read() that sets the R/W bit in the address of the read transaction
read_rw_bit(self, register, o1, o2, delivered) ==
    LET buf == <<0>>
        w   == I2cWrite(self, <<Register[register]>>, o1)
        r   == I2cRead(BitOr(self, 1), buf, o2, delivered)
    IN  IF o1 # "ok" THEN [txs |-> <<w>>, ret |-> Err(o1)]
        ELSE IF o2 # "ok" THEN [txs |-> <<w, r>>, ret |-> Err(o2)]
        ELSE [txs |-> <<w, r>>, ret |-> Ok(<<r.data[1]>>)]

\* LM3549::read
read(self, register, o1, o2, delivered) ==
    LET buf == <<0>>
        w   == I2cWrite(self, <<Register[register]>>, o1)
        r   == I2cRead(self, buf, o2, delivered)
    IN  IF o1 # "ok" THEN [txs |-> <<w>>, ret |-> Err(o1)]
        ELSE IF o2 # "ok" THEN [txs |-> <<w, r>>, ret |-> Err(o2)]
        ELSE [txs |-> <<w, r>>, ret |-> Ok(<<r.data[1]>>)]

\* LM3549::get_fault
get_fault(self, o1, o2, delivered) ==
    LET x == read(self, "Fault", o1, o2, delivered)
    IN  IF ~x.ret.ok THEN [txs |-> x.txs, ret |-> Err(x.ret.err)]
        ELSE [txs |-> x.txs, ret |-> Ok(x.ret.val)]

\* write() with the value ahead of the register address
write_value_first(self, register, value, o) ==
    LET buf == <<value, Register[register]>>
        w   == I2cWrite(self, buf, o)
    IN  [txs |-> <<w>>, ret |-> IF o = "ok" THEN Ok(<<>>) ELSE Err(o)]

\* LM3549::write
write(self, register, value, o) ==
    LET buf == <<Register[register], value>>
        w   == I2cWrite(self, buf, o)
    IN  [txs |-> <<w>>, ret |-> IF o = "ok" THEN Ok(<<>>) ELSE Err(o)]

\* write_bank() with each channel's high byte ahead of its low byte
write_bank_msb_first(self, bank, r, g, b, o) ==
    LET buf == <<Bank[bank],
                 BitAnd(Shr(r, 8), 3), BitAnd(r, 255),
                 BitAnd(Shr(g, 8), 3), BitAnd(g, 255),
                 BitAnd(Shr(b, 8), 3), BitAnd(b, 255)>>
        w   == I2cWrite(self, buf, o)
    IN  [txs |-> <<w>>, ret |-> IF o = "ok" THEN Ok(<<>>) ELSE Err(o)]

\* LM3549::write_bank
write_bank(self, bank, r, g, b, o) ==
    LET buf == <<Bank[bank],
                 BitAnd(r, 255), BitAnd(Shr(r, 8), 3),
                 BitAnd(g, 255), BitAnd(Shr(g, 8), 3),
                 BitAnd(b, 255), BitAnd(Shr(b, 8), 3)>>
        w   == I2cWrite(self, buf, o)
    IN  [txs |-> <<w>>, ret |-> IF o = "ok" THEN Ok(<<>>) ELSE Err(o)]

\* select_bank() that writes `bank as u8`, the bank's base address
select_bank_as_u8(self, bank, o) == write(self, "BankSel", Bank[bank], o)

\* LM3549::select_bank
select_bank(self, bank, o) ==
    LET sel == CASE bank = "B0" -> 0
                 [] bank = "B1" -> 1
                 [] bank = "B2" -> 2
    IN  write(self, "BankSel", sel, o)

\* LM3549::set_fader
set_fader(self, fade, o) == write(self, "Fader", fade, o)

\* LM3549::set_ctrl
set_ctrl(self, ctrl, o) == write(self, "Ctrl", ctrl, o)

\* LM3549::set_ilimit
set_ilimit(self, limit, o) == write(self, "Ilimit", limit, o)

\* LM3549::set_fault_mask
set_fault_mask(self, mask, o) == write(self, "FaultMask", mask, o)

(***************************************************************************)
(* Inputs                                                                  *)
(***************************************************************************)
\* register values written and bytes the device delivers
ByteSamples == {0, 165}

\* u16 channel currents: high bits 0, 1, 2 and 3 of the 10-bit range
ChannelSamples == {0, 341, 512, 1023}

\* fault mask bytes: the five enable bits
MaskSamples == {FaultMask_default, 10, 31}

\* What the transport does during a read(): the address write fails (no
\* read is attempted), or it succeeds and the read fails or delivers a byte
ReadOutcomes ==
    {<<e, "ok", <<0>>>> : e \in Errors}
    \cup {<<"ok", e, <<0>>>> : e \in Errors}
    \cup {<<"ok", "ok", <<x>>>> : x \in ByteSamples}

(***************************************************************************)
(* Driver specification                                                    *)
(***************************************************************************)
\* LM3549::new, and no register value object under study
Init ==
    /\ address = LM3549_ADDR
    /\ bus = <<>>
    /\ call = [op |-> "new"]
    /\ ret = Ok(<<>>)
    /\ addressed = {}
    /\ kind = "none"
    /\ raw = 0
    /\ obs = [op |-> "none"]

\* One operation ran to its return
Returned(c, r) ==
    /\ call' = c
    /\ bus' = r.txs
    /\ ret' = r.ret
    /\ addressed' = addressed \cup {r.txs[i].addr : i \in DOMAIN r.txs}
    /\ UNCHANGED <<address, kind, raw, obs>>

Read ==
    \E register \in Registers, t \in ReadOutcomes :
        Returned([op |-> "read", register |-> register],
                 read(address, register, t[1], t[2], t[3]))

GetFault ==
    \E t \in ReadOutcomes :
        Returned([op |-> "get_fault"],
                 get_fault(address, t[1], t[2], t[3]))

Write ==
    \E register \in Registers, value \in ByteSamples, o \in Outcomes :
        Returned([op |-> "write", register |-> register, value |-> value],
                 write(address, register, value, o))

WriteBank ==
    \E bank \in Banks, r \in ChannelSamples, g \in ChannelSamples,
       b \in ChannelSamples, o \in Outcomes :
        Returned([op |-> "write_bank", bank |-> bank,
                  r |-> r, g |-> g, b |-> b],
                 write_bank(address, bank, r, g, b, o))

SelectBank ==
    \E bank \in Banks, o \in Outcomes :
        Returned([op |-> "select_bank", bank |-> bank],
                 select_bank(address, bank, o))

SetFader ==
    \E fade \in ByteSamples, o \in Outcomes :
        Returned([op |-> "set_fader", value |-> fade],
                 set_fader(address, fade, o))

SetCtrl ==
    \E f \in CtrlFields, o \in Outcomes :
        Returned([op |-> "set_ctrl", fields |-> f, value |-> CtrlEncode(f)],
                 set_ctrl(address, CtrlEncode(f), o))

SetIlimit ==
    \E f \in IlimitFields, o \in Outcomes :
        Returned([op |-> "set_ilimit", fields |-> f,
                  value |-> IlimitEncode(Ilimit_default, f)],
                 set_ilimit(address, IlimitEncode(Ilimit_default, f), o))

SetFaultMask ==
    \E mask \in MaskSamples, o \in Outcomes :
        Returned([op |-> "set_fault_mask", value |-> mask],
                 set_fault_mask(address, mask, o))

Next ==
    \/ Read
    \/ GetFault
    \/ Write
    \/ WriteBank
    \/ SelectBank
    \/ SetFader
    \/ SetCtrl
    \/ SetIlimit
    \/ SetFaultMask

Spec == Init /\ [][Next]_vars

(***************************************************************************)
(* Codec specification: one register value object, built from any raw byte *)
(* (as get_fault builds Fault(x)), then read and changed through the       *)
(* accessors.                                                              *)
(***************************************************************************)
CodecInit ==
    /\ address = LM3549_ADDR
    /\ bus = <<>>
    /\ call = [op |-> "new"]
    /\ ret = Ok(<<>>)
    /\ addressed = {}
    /\ kind \in {"Ctrl", "Ilimit", "Fault", "u8"}
    /\ raw \in U8
    /\ obs = [op |-> "none"]

\* Read the four fields of a control register and build a register from them
CtrlRoundTrip ==
    /\ kind = "Ctrl"
    /\ obs' = [op |-> "ctrl_round_trip", raw |-> raw,
               fields |-> CtrlDecode(raw),
               encoded |-> CtrlEncode(CtrlDecode(raw))]
    /\ UNCHANGED <<kind, raw, driverVars>>

\* Set both fields of a current limit register, then read them
IlimitRoundTrip ==
    /\ kind = "Ilimit"
    /\ \E f \in IlimitFields :
        /\ raw' = IlimitEncode(raw, f)
        /\ obs' = [op |-> "ilimit_round_trip", fields |-> f,
                   decoded |-> IlimitDecode(IlimitEncode(raw, f))]
    /\ UNCHANGED <<kind, driverVars>>

\* Set the positive limit alone
IlimitSetPos ==
    /\ kind = "Ilimit"
    /\ \E p \in Members(PosLimit) :
        /\ raw' = Ilimit_set_softstart(raw, p)
        /\ obs' = [op |-> "ilimit_set_pos", value |-> p,
                   before |-> IlimitDecode(raw),
                   after |-> IlimitDecode(Ilimit_set_softstart(raw, p))]
    /\ UNCHANGED <<kind, driverVars>>

\* Set the negative limit alone
IlimitSetNeg ==
    /\ kind = "Ilimit"
    /\ \E n \in Members(NegLimit) :
        /\ raw' = Ilimit_set_timeout(raw, n)
        /\ obs' = [op |-> "ilimit_set_neg", value |-> n,
                   before |-> IlimitDecode(raw),
                   after |-> IlimitDecode(Ilimit_set_timeout(raw, n))]
    /\ UNCHANGED <<kind, driverVars>>

\* Ilimit::default()
IlimitDefault ==
    /\ kind = "Ilimit"
    /\ raw' = Ilimit_default
    /\ obs' = [op |-> "ilimit_default",
               decoded |-> IlimitDecode(Ilimit_default)]
    /\ UNCHANGED <<kind, driverVars>>

\* Read a fault register: its fields and the two derived predicates
FaultStatus ==
    /\ kind = "Fault"
    /\ obs' = [op |-> "fault_status", raw |-> raw,
               short |-> Fault_short(raw), open |-> Fault_open(raw),
               uvlo |-> Fault_uvlo(raw), tsd |-> Fault_tsd(raw),
               ocp |-> Fault_ocp(raw),
               is_ok |-> Fault_is_ok(raw), is_err |-> Fault_is_err(raw)]
    /\ UNCHANGED <<kind, raw, driverVars>>

\* Convert a byte into each enumeration
FromU8 ==
    /\ kind = "u8"
    /\ obs' = [op |-> "from_u8", x |-> raw,
               pos |-> PosLimitFromU8(raw), neg |-> NegLimitFromU8(raw),
               timeout |-> TimeoutFromU8(raw),
               softstart |-> SoftStartFromU8(raw),
               openshort |-> OpenShortFromU8(raw)]
    /\ UNCHANGED <<kind, raw, driverVars>>

CodecNext ==
    \/ CtrlRoundTrip
    \/ IlimitRoundTrip
    \/ IlimitSetPos
    \/ IlimitSetNeg
    \/ IlimitDefault
    \/ FaultStatus
    \/ FromU8

CodecSpec == CodecInit /\ [][CodecNext]_vars

(***************************************************************************)
(* Properties of the driver (checked under Spec)                           *)
(***************************************************************************)
\* The latest operation issued exactly one transaction: a write of `bytes`
OneWrite(bytes) ==
    /\ Len(bus) = 1
    /\ bus[1].kind = "write"
    /\ bus[1].bytes = bytes

\* The value select_bank writes for each bank
BankIndex == [B0 |-> 0, B1 |-> 1, B2 |-> 2]

\* The base register address of each bank
BankBase == [B0 |-> 1, B1 |-> 7, B2 |-> 13]

\* C1 as stated: select_bank(bank) issues exactly one write transaction whose
\* payload is [0x00, base(bank)]: [0x00, 0x01], [0x00, 0x07], [0x00, 0x0D].
C1_SelectBankWritesBase ==
    call.op = "select_bank" => OneWrite(<<0, BankBase[call.bank]>>)

\* C1 amended: select_bank(bank) issues exactly one write transaction whose
\* payload is [0x00, index(bank)]: Bank0 -> [0x00, 0x00], Bank1 -> [0x00, 0x01],
\* Bank2 -> [0x00, 0x02]; no other transaction is issued.
C1_SelectBankWritesIndex ==
    call.op = "select_bank" => OneWrite(<<0, BankIndex[call.bank]>>)

C1_Witness ==
    /\ call = [op |-> "select_bank", bank |-> "B2"]
    /\ ret.ok
    /\ bus[1].bytes = <<0, 2>>

\* C2: for every bank and every r, g, b in 0..1023, write_bank issues exactly
\* one write transaction of exactly 7 bytes [base(bank), r mod 256, r div 256,
\* g mod 256, g div 256, b mod 256, b div 256], every high byte in 0..3.
C2_WriteBankFrame ==
    (/\ call.op = "write_bank"
     /\ call.r \in 0 .. 1023 /\ call.g \in 0 .. 1023 /\ call.b \in 0 .. 1023)
    =>
    /\ OneWrite(<<BankBase[call.bank],
                  call.r % 256, call.r \div 256,
                  call.g % 256, call.g \div 256,
                  call.b % 256, call.b \div 256>>)
    /\ bus[1].len = 7
    /\ \A i \in {3, 5, 7} : bus[1].bytes[i] \in 0 .. 3

C2_Witness ==
    /\ call = [op |-> "write_bank", bank |-> "B0",
               r |-> 1023, g |-> 0, b |-> 512]
    /\ Len(bus) = 1
    /\ bus[1].bytes = <<1, 255, 3, 0, 0, 0, 2>>

\* C3: a successful read(register) issues exactly two transactions in this
\* order: a write of the single byte [register address], then a read of
\* exactly 1 byte, both to the same device address, and returns the byte that
\* read delivered; get_fault() issues the same sequence with the byte 0x17.
C3_ReadSequence ==
    (call.op \in {"read", "get_fault"} /\ ret.ok)
    =>
    /\ Len(bus) = 2
    /\ bus[1].kind = "write"
    /\ bus[1].bytes =
         <<IF call.op = "read" THEN Register[call.register] ELSE 23>>
    /\ (call.op = "read" /\ call.register = "Fault" => bus[1].bytes = <<23>>)
    /\ bus[2].kind = "read"
    /\ bus[2].len = 1
    /\ bus[1].addr = bus[2].addr
    /\ ret.val = bus[2].data

C3_Witness ==
    /\ call = [op |-> "read", register |-> "Fault"]
    /\ ret = Ok(<<165>>)
    /\ Len(bus) = 2
    /\ bus[2].data = <<165>>

\* C4: when a transaction of an operation fails, the operation returns
\* exactly the error the transport reported and issues no transaction after
\* the failed one; an operation that returns an error had a failed
\* transaction.
C4_ErrorPropagation ==
    /\ \A i \in DOMAIN bus :
         bus[i].outcome # "ok" => i = Len(bus) /\ ret = Err(bus[i].outcome)
    /\ ~ret.ok => Len(bus) >= 1 /\ bus[Len(bus)].outcome = ret.err

C4_Witness ==
    /\ call.op = "read"
    /\ Len(bus) = 1
    /\ bus[1].outcome = "ArbitrationLoss"
    /\ ret = Err("ArbitrationLoss")

\* The 2-bit codes of the control register's fields
SoftStartCode == [None |-> 0, MS500 |-> 1, MS1000 |-> 2, MS2000 |-> 3]

TimeoutCode == [MS125 |-> 0, MS250 |-> 1, MS500 |-> 2, MS1000 |-> 3]

\* The register each setter writes
SetterAddress ==
    [set_fader |-> 19, set_ctrl |-> 20, set_ilimit |-> 21,
     set_fault_mask |-> 22]

\* C5: write, set_fader, set_ctrl, set_ilimit and set_fault_mask each issue
\* exactly one write transaction of exactly 2 bytes [register address, value]
\* and no read; the address is 0x13, 0x14, 0x15, 0x16 for the setters, and
\* for set_ctrl the value holds the softstart code in bits 5-4, the timeout
\* code in bits 3-2, fader enable in bit 1 and PWM enable in bit 0.
C5_RegisterWrites ==
    /\ call.op = "write" =>
         OneWrite(<<Register[call.register], call.value>>)
    /\ call.op \in DOMAIN SetterAddress =>
         OneWrite(<<SetterAddress[call.op], call.value>>)
    /\ call.op = "set_ctrl" =>
         bus[1].bytes[2] =
             16 * SoftStartCode[call.fields.softstart]
             + 4 * TimeoutCode[call.fields.timeout]
             + 2 * (IF call.fields.mfe THEN 1 ELSE 0)
             + (IF call.fields.pwm THEN 1 ELSE 0)

C5_Witness ==
    /\ call.op = "set_ctrl"
    /\ call.fields = [softstart |-> "MS1000", timeout |-> "MS1000",
                      mfe |-> FALSE, pwm |-> TRUE]
    /\ bus[1].bytes = <<20, 45>>

\* C9: after any sequence of driver operations, failed ones included, the
\* device address is still the one set at construction (0x36) and every
\* transaction ever issued was addressed to it.
C9_AddressFixed ==
    /\ address = 54
    /\ addressed \subseteq {address}
    /\ \A i \in DOMAIN bus : bus[i].addr = address

C9_Witness ==
    /\ addressed = {54}
    /\ call.op = "get_fault"
    /\ Len(bus) = 2
    /\ ~ret.ok

(***************************************************************************)
(* Properties of the codecs (checked under CodecSpec)                      *)
(***************************************************************************)
\* C6 as stated: for all 256 bytes b of the control register, decoding b
\* into its fields and encoding those fields back yields exactly b.
C6_CtrlRoundTripExact ==
    obs.op = "ctrl_round_trip" => obs.encoded = obs.raw

\* C6 amended: decoding b into its four fields and encoding those fields back
\* yields b with bits 7 and 6 cleared (b mod 64); it is b itself exactly when
\* bits 7 and 6 of b are clear.
C6_CtrlRoundTripLow6 ==
    obs.op = "ctrl_round_trip" =>
        /\ obs.encoded = obs.raw % 64
        /\ (obs.encoded = obs.raw) = (obs.raw < 64)

C6_Witness ==
    /\ obs.op = "ctrl_round_trip"
    /\ obs.raw = 45
    /\ obs.fields = [softstart |-> "MS1000", timeout |-> "MS1000",
                     mfe |-> FALSE, pwm |-> TRUE]
    /\ obs.encoded = 45

\* The 2-bit codes of the current limit register's fields
PosLimitCode == [MA500 |-> 0, MA1000 |-> 1, MA1500 |-> 2, MA2000 |-> 3]

NegLimitCode == [MA550 |-> 0, MA1100 |-> 1, MA1650 |-> 2, MA2200 |-> 3]

\* C7: for every current-limit field combination, encoding the pair into the
\* register byte (positive code in bits 5-4, negative code in bits 1-0) and
\* decoding that byte returns the same pair; setting one field does not
\* change the other; the default byte 0x11 decodes to 1000 mA / 1100 mA.
C7_IlimitRoundTrip ==
    /\ obs.op = "ilimit_round_trip" =>
         /\ obs.decoded = obs.fields
         /\ (raw \div 16) % 4 = PosLimitCode[obs.fields.pos]
         /\ raw % 4 = NegLimitCode[obs.fields.neg]
    /\ obs.op = "ilimit_set_pos" =>
         /\ obs.after.pos = obs.value
         /\ obs.after.neg = obs.before.neg
    /\ obs.op = "ilimit_set_neg" =>
         /\ obs.after.neg = obs.value
         /\ obs.after.pos = obs.before.pos
    /\ obs.op = "ilimit_default" =>
         /\ raw = 17
         /\ obs.decoded = [pos |-> "MA1000", neg |-> "MA1100"]

C7_Witness ==
    /\ obs.op = "ilimit_round_trip"
    /\ obs.fields = [pos |-> "MA1500", neg |-> "MA2200"]
    /\ obs.decoded = obs.fields
    /\ raw = 35

\* C8: for every raw fault byte, is_ok() is true exactly when none of the
\* fault-bearing bits (6..0) is set, is_err() is true exactly when at least
\* one is set, and the two are complements; 0x00 gives is_ok() = TRUE and
\* is_err() = FALSE.
C8_FaultPredicates ==
    obs.op = "fault_status" =>
        LET faultFree == obs.raw % 128 = 0
        IN  /\ obs.is_ok = faultFree
            /\ obs.is_err = ~faultFree
            /\ obs.is_ok = ~obs.is_err

\* The member each decoder yields for a code its table does not name, as
\* the claim states it
HighestMember(enum) == enum[Len(enum)]

\* C10 as stated: every byte-to-enumeration decoder is total over 0..255,
\* maps codes 0..3 to the four members in order, and maps every other code
\* to the highest-valued member (Blue for the fault source).
C10_DecodersFallBackToHighest ==
    obs.op = "from_u8" =>
        \A d \in {<<"pos", PosLimit>>, <<"neg", NegLimit>>,
                  <<"timeout", Timeout>>, <<"softstart", SoftStart>>,
                  <<"openshort", OpenShort>>} :
            obs[d[1]] =
                IF obs.x <= 3 THEN d[2][obs.x + 1] ELSE HighestMember(d[2])

\* C10 amended: every decoder is total over 0..255 and maps codes 0..3 to
\* the four members in order; the positive limit, negative limit, timeout
\* and soft-start decoders map every other code to the highest-valued
\* member, and the fault source decoder maps every other code to None.
C10_DecodersTotal ==
    obs.op = "from_u8" =>
        /\ \A d \in {<<"pos", PosLimit>>, <<"neg", NegLimit>>,
                     <<"timeout", Timeout>>, <<"softstart", SoftStart>>} :
             obs[d[1]] =
                 IF obs.x <= 3 THEN d[2][obs.x + 1] ELSE HighestMember(d[2])
        /\ obs.openshort =
             IF obs.x <= 3 THEN OpenShort[obs.x + 1] ELSE "None"

C10_Witness ==
    /\ obs.op = "from_u8"
    /\ obs.x = 200
    /\ obs.pos = "MA2000"
    /\ obs.openshort = "None"

====
